---- MODULE Spec2Model ----
(***************************************************************************)
(* Storage layer of dna-platform (src/src/core/storage.py): the dual-write *)
(* protocol of write_parquet and the latest-by-filename resolution of      *)
(* read_parquet_latest, over a local directory tree and an ADLS container. *)
(*                                                                         *)
(* Strings that the code takes apart are modelled by their parts:          *)
(*   - a file name "<layer>_<dataset>_<stamp>.parquet" is the sequence of  *)
(*     its tokens <<layer, dataset, stamp, "parquet">>; startswith,        *)
(*     endswith and the string order are computed on the tokens;           *)
(*   - a path or URI is a record [scheme, netloc, dir, name] with dir the  *)
(*     sequence of directory segments and name the file name.              *)
(* Python exceptions are modelled by results [exc |-> <type or "">, ...].  *)
(***************************************************************************)
EXTENDS Integers, Sequences, FiniteSets, TLC

VARIABLES
    env,      \* the process environment (os.environ), fixed during a run
    local,    \* local filesystem under DATA_DIR: path record -> DataFrame
    adls,     \* the ADLS container: path record -> DataFrame
    last,     \* the last call: its arguments, what it did and its result
    hist,     \* per (layer, prefix): the successful writes seen so far
    nCalls,   \* number of write_parquet calls made
    nReads,   \* number of read_parquet_latest calls since the last write
    calls,    \* calls that run concurrently: where each one is in its code
    stages,   \* the pipeline run: the assets materialized so far
    cli       \* the run_polster command: its arguments and what it did

vars == <<env, local, adls, last, hist, nCalls, nReads, calls, stages, cli>>

\* what a process that makes its calls one after the other leaves alone
others == <<calls, stages, cli>>

----------------------------------------------------------------------------
(* Bounds of the model *)

MaxRows == 3
MaxStamp == 2
MaxWrites == 2
MaxReads == 1
MaxCalls == 1

----------------------------------------------------------------------------
(* Values *)

Min(a, b) == IF a <= b THEN a ELSE b

\* A polars DataFrame is the sequence of its rows; None is the absent table.
DataFrame(rows) == [none |-> FALSE, rows |-> rows]
None == [none |-> TRUE, rows |-> <<>>]

\* what a file holds while df.write_parquet(path) is still writing it: the
\* file exists under its final name and no table can be loaded from it
Incomplete == None

\* the tables written: the empty one and one of MaxRows distinct rows
Tables == { DataFrame([i \in 1..n |-> i]) : n \in {0, MaxRows} }

\* df.limit(n): the first n rows
limit(df, n) == DataFrame(SubSeq(df.rows, 1, Min(n, Len(df.rows))))

\* UTC stamps as strftime("%Y%m%dT%H%M%SZ") prints them, in increasing order.
Stamps ==
    << "20240101T000000Z", "20240102T000000Z", "20240103T000000Z",
       "20240104T000000Z" >>

\* Every token of a path or file name, in the order of Python's str
\* comparison (digits sort before lower-case letters).
TokenOrder ==
    Stamps \o << "agent_performance", "agents", "archive", "bronze", "claims",
                 "claims_summary", "clean_agents", "clean_claims",
                 "clean_customers", "clean_payments", "clean_policies",
                 "clean_vehicles", "customer_policies", "customer_risk",
                 "customers", "data", "dna-platform", "gold", "parquet",
                 "payments", "policies", "policy_claims", "premium_revenue",
                 "sample", "silver", "vehicles" >>

Rank(tok) == CHOOSE i \in 1..Len(TokenOrder) : TokenOrder[i] = tok

\* Python's a < b on strings, on token sequences.
RECURSIVE StrLess(_, _)
StrLess(a, b) ==
    IF b = <<>> THEN FALSE
    ELSE IF a = <<>> THEN TRUE
    ELSE IF a[1] = b[1] THEN StrLess(Tail(a), Tail(b))
    ELSE Rank(a[1]) < Rank(b[1])

\* str.startswith / str.endswith(".parquet")
startswith(name, prefix) ==
    /\ Len(prefix) <= Len(name)
    /\ SubSeq(name, 1, Len(prefix)) = prefix

endswith_parquet(name) == name # <<>> /\ name[Len(name)] = "parquet"

Layers == {"bronze"}
Datasets == {"agents", "claims"}

\* f"{layer}_{dataset}_{timestamp}.parquet" as the pipeline stages build it
FileName(layer, dataset, ts) == <<layer, dataset, Stamps[ts], "parquet">>

\* the dataset prefix the stages read with, e.g. "bronze_agents_"
Prefix(layer, dataset) == <<layer, dataset>>

\* mutant: the sample is marked after the dataset prefix
SampleName_Infix(filename) ==
    SubSeq(filename, 1, 2) \o <<"sample">> \o SubSeq(filename, 3, Len(filename))

\* f"sample_{filename}"
SampleName(filename) == <<"sample">> \o filename

\* layer.split("/"): the directory segments of a layer; a layer is one
\* segment unless it names a subdirectory of another layer
split(layer) == IF layer = "bronze/archive" THEN <<"bronze", "archive">> ELSE <<layer>>

\* A file name may carry a directory part, "archive/<name>": the token
\* "archive/" in front of the name. os.path.dirname / os.path.basename.
InDir(filename) == <<"archive/">> \o filename
dirname(filename) ==
    IF filename # <<>> /\ filename[1] = "archive/" THEN <<"archive">> ELSE <<>>
basename(filename) ==
    IF filename # <<>> /\ filename[1] = "archive/" THEN Tail(filename) ELSE filename

DATA_DIR == <<"data">>

NoLocation == [scheme |-> "none", netloc |-> <<>>, dir |-> <<>>, name |-> <<>>]

\* mutant: the layer is left out of the path
LocalPath_Flat(layer, filename) ==
    [scheme |-> "", netloc |-> <<>>, dir |-> DATA_DIR \o dirname(filename),
     name |-> basename(filename)]

\* os.path.join(DATA_DIR, layer, filename)
LocalPath(layer, filename) ==
    [scheme |-> "", netloc |-> <<>>,
     dir |-> DATA_DIR \o split(layer) \o dirname(filename),
     name |-> basename(filename)]

\* urlparse(uri).path.lstrip("/"): the path inside the container
ContainerPath(uri) == [dir |-> uri.dir, name |-> uri.name]

\* the key of a file in the local tree
FsPath(loc) == [dir |-> loc.dir, name |-> loc.name]

----------------------------------------------------------------------------
(* Configuration resolver *)

\* os.getenv(name, default) followed by "or default" at every use: an unset
\* and an empty variable are both the empty string here.
_load_env(name, default) == IF env[name] = "" THEN default ELSE env[name]

\* str.lower() on the values the environment can hold
lower(s) ==
    CASE s = "ADLS" -> "adls"
      [] s = "LOCAL" -> "local"
      [] s = "TRUE" -> "true"
      [] OTHER -> s

\* mutant: a value that is not recognised is read as the default
get_storage_backend_Lenient ==
    LET backend == lower(_load_env("STORAGE_BACKEND", "local"))
    IN  [exc |-> "", backend |-> IF backend = "adls" THEN "adls" ELSE "local"]

get_storage_backend ==
    LET backend == lower(_load_env("STORAGE_BACKEND", "local"))
    IN  IF backend \notin {"local", "adls"}
        THEN [exc |-> "ValueError", backend |-> backend]
        ELSE [exc |-> "", backend |-> backend]

is_adls_configured ==
    LET required_vars == {"ADLS_ACCOUNT_NAME", "ADLS_ACCOUNT_KEY", "ADLS_CONTAINER"}
        missing_vars == { var \in required_vars : _load_env(var, "") = "" }
    IN  missing_vars = {}

\* ADLS_BASE_PATH is left unset: the default, stripped of "/"
_adls_base_path == <<"dna-platform", "data">>

----------------------------------------------------------------------------
(* Path resolver *)

AbfssUri(container, account_name, layer, filename) ==
    [scheme |-> "abfss", netloc |-> <<container, account_name>>,
     dir |-> _adls_base_path \o split(layer) \o dirname(filename),
     name |-> basename(filename)]

resolve_path(layer, filename) ==
    IF layer = "" \/ filename = <<>>
    THEN [exc |-> "ValueError", loc |-> NoLocation]
    ELSE LET b == get_storage_backend
         IN  IF b.exc # "" THEN [exc |-> b.exc, loc |-> NoLocation]
             ELSE IF b.backend = "local"
             THEN [exc |-> "", loc |-> LocalPath(layer, filename)]
             ELSE LET account_name == _load_env("ADLS_ACCOUNT_NAME", "")
                      container == _load_env("ADLS_CONTAINER", "")
                  IN  IF account_name = "" \/ container = ""
                      THEN [exc |-> "ValueError", loc |-> NoLocation]
                      ELSE [exc |-> "",
                            loc |-> AbfssUri(container, account_name, layer, filename)]

----------------------------------------------------------------------------
(* Writer *)

\* A store with one object created or replaced (open(path, "wb") locally,
\* upload_data(..., overwrite=True) remotely).
Put(store, path, df) ==
    [p \in DOMAIN store \cup {path} |-> IF p = path THEN df ELSE store[p]]

\* What the environment does to the I/O of one write_parquet call: TRUE
\* makes that write fail (upload: the remote upload; sample: the local write
\* of the sample; full: the local write of the full table, mirror or primary).
\* A write that fails raises and leaves no object behind.
WriteFaults == [upload : BOOLEAN, sample : BOOLEAN, full : BOOLEAN]

\* int(sample_size_str) on the values DUAL_WRITE_SAMPLE_SIZE can hold
int(s) ==
    CASE s = "0" -> [exc |-> "", val |-> 0]
      [] s = "1" -> [exc |-> "", val |-> 1]
      [] s = "2" -> [exc |-> "", val |-> 2]
      [] s = "3" -> [exc |-> "", val |-> 3]
      [] s = "50" -> [exc |-> "", val |-> 50]
      [] s = "-1" -> [exc |-> "", val |-> -1]
      [] OTHER -> [exc |-> "ValueError", val |-> 0]

write_azure_data_lake(store, df, layer, filename, fails) ==
    IF df.none THEN [exc |-> "ValueError", loc |-> NoLocation, adls |-> store]
    ELSE LET r == resolve_path(layer, filename)
         IN  IF r.exc # ""
             THEN [exc |-> r.exc, loc |-> NoLocation, adls |-> store]
             ELSE IF \/ _load_env("ADLS_ACCOUNT_NAME", "") = ""
                     \/ _load_env("ADLS_ACCOUNT_KEY", "") = ""
                     \/ _load_env("ADLS_CONTAINER", "") = ""
             THEN [exc |-> "ValueError", loc |-> NoLocation, adls |-> store]
             ELSE IF fails
             THEN [exc |-> "RuntimeError", loc |-> NoLocation, adls |-> store]
             ELSE [exc |-> "", loc |-> r.loc,
                   adls |-> Put(store, ContainerPath(r.loc), df)]

\* (cause: the chain of __cause__ of the exception raised, outermost first;
\* a write that the file system refuses raises OSError)
_write_parquet_local_fallback(store, df, layer, filename, fails) ==
    IF df.none
    THEN [exc |-> "ValueError", cause |-> <<>>, loc |-> NoLocation, local |-> store]
    ELSE LET output_path == LocalPath(layer, filename)
         IN  IF fails
             THEN [exc |-> "RuntimeError", cause |-> <<"OSError">>,
                   loc |-> NoLocation, local |-> store]
             ELSE [exc |-> "", cause |-> <<>>, loc |-> output_path,
                   local |-> Put(store, FsPath(output_path), df)]

\* lines 192-194
adls_fallback == lower(_load_env("ADLS_FALLBACK_TO_LOCAL", "false")) = "true"

\* mutant: the credentials are not looked at
adls_configured_BackendOnly(backend) == backend = "adls"

\* line 198: whether the remote upload is attempted
adls_configured(backend) == backend = "adls" \/ is_adls_configured

\* mutant: the upload failure is swallowed whatever the fallback flag says
UploadRaises_Never(exc) == ""

\* mutant: the upload failure is raised whatever the fallback flag says
UploadRaises_Always(exc) == IF exc # "" THEN "RuntimeError" ELSE ""

\* lines 205-211: what the except clause around the upload raises
UploadRaises(exc) == IF exc # "" /\ ~adls_fallback THEN "RuntimeError" ELSE ""

\* mutant: the flag is read from the wrong variable
disable_local_WrongVar == lower(_load_env("ADLS_FALLBACK_TO_LOCAL", "false")) = "true"

\* lines 215-217
disable_local == lower(_load_env("DISABLE_LOCAL_SAMPLE", "false")) = "true"

\* mutant: the cap is ignored, the sample is the whole table
SampleSize_Uncapped(df) == Len(df.rows)

\* line 230: the cap used when DUAL_WRITE_SAMPLE_SIZE states none
DefaultCap == 50

\* mutant: a value that states no cap gives an empty sample
SampleSize_InvalidIsZero(df) ==
    LET parsed == int(_load_env("DUAL_WRITE_SAMPLE_SIZE", "50"))
    IN  IF parsed.exc # "" \/ parsed.val < 0 THEN 0
        ELSE Min(parsed.val, Len(df.rows))

\* lines 220-230: the row cap of the sample
SampleSize(df) ==
    LET parsed == int(_load_env("DUAL_WRITE_SAMPLE_SIZE", "50"))
    IN  IF parsed.exc # "" \/ parsed.val < 0 THEN DefaultCap
        ELSE Min(parsed.val, Len(df.rows))

\* mutant: the failure of the sample write propagates
SampleRaises_Propagates(exc) == IF exc # "" THEN "RuntimeError" ELSE ""

\* lines 238-240: what the except clause around the sample write raises
SampleRaises(exc) == ""

\* lines 249-250: what the except clause around the mirror write raises
MirrorRaises(exc) == ""

\* mutant: the mirror is written after every remote success
MirrorWanted_Always == TRUE

\* line 245: whether the full table is mirrored locally after a remote success
MirrorWanted == adls_fallback

\* lines 213-240: the local sample
WriteSample(store, df, layer, filename, fails) ==
    IF disable_local THEN [exc |-> "", local |-> store, ops |-> <<>>]
    ELSE LET w == _write_parquet_local_fallback(
                      store, limit(df, SampleSize(df)), layer,
                      SampleName(filename), fails)
         IN  [exc |-> SampleRaises(w.exc), local |-> w.local,
              ops |-> << [step |-> "sample", ok |-> w.exc = ""] >>]

\* mutant: the failure of the primary local write is only logged
PrimaryRaises_Swallowed(exc, cause) == [exc |-> "", cause |-> <<>>]

\* lines 256-260: what the except clause around the primary local write
\* raises: RuntimeError(...) from e
PrimaryRaises(exc, cause) ==
    IF exc = "" THEN [exc |-> "", cause |-> <<>>]
    ELSE [exc |-> "RuntimeError", cause |-> <<exc>> \o cause]

\* lines 242-260: the mirror after a remote success, else the local primary
WriteFull(store, adls_path, df, layer, filename, fails) ==
    IF adls_path # NoLocation
    THEN IF MirrorWanted
         THEN LET w == _write_parquet_local_fallback(store, df, layer, filename, fails)
              IN  [exc |-> MirrorRaises(w.exc), cause |-> <<>>,
                   loc |-> IF MirrorRaises(w.exc) = "" THEN adls_path ELSE NoLocation,
                   local |-> w.local,
                   ops |-> << [step |-> "mirror", ok |-> w.exc = ""] >>]
         ELSE [exc |-> "", cause |-> <<>>, loc |-> adls_path, local |-> store,
               ops |-> <<>>]
    ELSE LET w == _write_parquet_local_fallback(store, df, layer, filename, fails)
         IN  [exc |-> PrimaryRaises(w.exc, w.cause).exc,
              cause |-> PrimaryRaises(w.exc, w.cause).cause,
              loc |-> w.loc, local |-> w.local,
              ops |-> << [step |-> "primary", ok |-> w.exc = ""] >>]

\* mutant: the absent table is not refused
write_args_invalid_TableUnchecked(df, layer, filename) == layer = "" \/ filename = <<>>

\* mutant: a table without rows is refused like an absent one
write_args_invalid_EmptyRefused(df, layer, filename) ==
    df.none \/ df.rows = <<>> \/ layer = "" \/ filename = <<>>

\* lines 183-186: the arguments that write_parquet refuses
write_args_invalid(df, layer, filename) == df.none \/ layer = "" \/ filename = <<>>

write_parquet(df, layer, filename, fault) ==
    LET raise(e, store, ops) ==
            [exc |-> e, cause |-> <<>>, loc |-> NoLocation, local |-> store,
             adls |-> adls, ops |-> ops]
        b == get_storage_backend
    IN  IF write_args_invalid(df, layer, filename) THEN raise("ValueError", local, <<>>)
        ELSE IF b.exc # "" THEN raise(b.exc, local, <<>>)
        ELSE LET attempt == adls_configured(b.backend)
                 up == IF attempt
                       THEN write_azure_data_lake(adls, df, layer, filename, fault.upload)
                       ELSE [exc |-> "", loc |-> NoLocation, adls |-> adls]
                 upOps == IF attempt
                          THEN << [step |-> "upload", ok |-> up.exc = ""] >>
                          ELSE <<>>
             IN  IF UploadRaises(up.exc) # ""
                 THEN raise(UploadRaises(up.exc), local, upOps)
                 ELSE LET adls_path == IF up.exc = "" THEN up.loc ELSE NoLocation
                          s == WriteSample(local, df, layer, filename, fault.sample)
                      IN  IF s.exc # ""
                          THEN [exc |-> s.exc, cause |-> <<>>, loc |-> NoLocation,
                                local |-> s.local,
                                adls |-> up.adls, ops |-> upOps \o s.ops]
                          ELSE LET f == WriteFull(s.local, adls_path, df, layer,
                                                  filename, fault.full)
                               IN  [exc |-> f.exc, cause |-> f.cause, loc |-> f.loc,
                                    local |-> f.local,
                                    adls |-> up.adls, ops |-> upOps \o s.ops \o f.ops]

----------------------------------------------------------------------------
(* Reader *)

\* max(candidates) on strings
StrMax(S) == CHOOSE x \in S : \A y \in S : y = x \/ StrLess(y, x)

\* What the environment does to one read_parquet_latest call: nothing, or the
\* step that fails (the import of the client library, the client
\* construction, the remote listing, the download, or opening the local file).
ReadFaults == {"none", "import", "client", "list", "download", "local"}

_read_latest_local(layer, prefix, fails) ==
    LET directory == DATA_DIR \o split(layer)
        listdir == { p.name : p \in { q \in DOMAIN local : q.dir = directory } }
        candidates == { filename \in listdir :
                            startswith(filename, prefix) /\ endswith_parquet(filename) }
        listed == [step |-> "local_list", ok |-> TRUE]
    IN  IF candidates = {}
        THEN [exc |-> "FileNotFoundError", df |-> None, src |-> NoLocation,
              ops |-> <<listed>>]
        ELSE LET latest == StrMax(candidates)
             IN  IF fails \/ local[[dir |-> directory, name |-> latest]] = Incomplete
                 THEN [exc |-> "RuntimeError", df |-> None, src |-> NoLocation,
                       ops |-> <<listed, [step |-> "local_read", ok |-> FALSE]>>]
                 ELSE [exc |-> "", df |-> local[[dir |-> directory, name |-> latest]],
                       src |-> LocalPath(layer, latest),
                       ops |-> <<listed, [step |-> "local_read", ok |-> TRUE]>>]

\* path_item.name of the listing: the directory segments, then the file name
FullName(p) == p.dir \o p.name

\* lines 337-383: list, select and download from the container; any
\* exception raised in there is caught at line 385
\* (listing a directory that holds nothing raises like a failed listing:
\* both end in the local read).
ReadRemote(layer, prefix, rfault) ==
    LET directory_path == _adls_base_path \o split(layer)
        get_paths == { p \in DOMAIN adls : startswith(p.dir, directory_path) }
        candidates == { p \in get_paths :
                            startswith(p.name, prefix) /\ endswith_parquet(p.name) }
        failed(e, ops) == [exc |-> e, df |-> None, src |-> NoLocation, ops |-> ops]
        listed == [step |-> "remote_list", ok |-> TRUE]
    IN  IF rfault = "client"
        THEN failed("Exception", << [step |-> "client", ok |-> FALSE] >>)
        ELSE IF rfault = "list" \/ get_paths = {}
        THEN failed("FileNotFoundError", << [step |-> "remote_list", ok |-> FALSE] >>)
        ELSE IF candidates = {}
        THEN failed("FileNotFoundError", <<listed>>)
        ELSE LET latest_path ==
                     CHOOSE p \in candidates :
                         FullName(p) = StrMax({ FullName(c) : c \in candidates })
             IN  IF rfault = "download"
                 THEN failed("Exception",
                             <<listed, [step |-> "remote_download", ok |-> FALSE]>>)
                 ELSE [exc |-> "", df |-> adls[latest_path],
                       src |-> [scheme |-> "adls", netloc |-> <<>>,
                                dir |-> latest_path.dir, name |-> latest_path.name],
                       ops |-> <<listed, [step |-> "remote_download", ok |-> TRUE]>>]

\* mutant: an exception of the remote branch reaches the caller
RemoteRaises_Surfaces(exc) == exc

\* lines 385-387: what becomes of an exception raised in lines 337-383
RemoteRaises(exc) == ""

\* lines 390-396: what the outer except clause raises for an exception
OuterRaises(exc) ==
    IF exc \in {"", "ValueError", "FileNotFoundError"} THEN exc ELSE "RuntimeError"

\* lines 304-307: the arguments that read_parquet_latest refuses
read_args_invalid(layer, prefix) == layer = "" \/ prefix = <<>>

read_parquet_latest(layer, prefix, fault) ==
    LET raise(e) == [exc |-> e, df |-> None, src |-> NoLocation, ops |-> <<>>]
        local_after(ops) ==
            LET r == _read_latest_local(layer, prefix, fault = "local")
            IN  [exc |-> OuterRaises(r.exc), df |-> r.df, src |-> r.src,
                 ops |-> ops \o r.ops]
    IN  IF read_args_invalid(layer, prefix) THEN raise("ValueError")
        ELSE LET b == get_storage_backend
             IN  IF b.exc # "" THEN raise(b.exc)
                 ELSE IF b.backend = "local" THEN local_after(<<>>)
                 ELSE IF \/ _load_env("ADLS_ACCOUNT_NAME", "") = ""
                         \/ _load_env("ADLS_ACCOUNT_KEY", "") = ""
                         \/ _load_env("ADLS_CONTAINER", "") = ""
                 THEN local_after(<< [step |-> "credentials", ok |-> FALSE] >>)
                 ELSE IF fault = "import"
                 THEN local_after(<< [step |-> "import", ok |-> FALSE] >>)
                 ELSE LET r == ReadRemote(layer, prefix, fault)
                      IN  IF r.exc = "" THEN r
                          ELSE IF RemoteRaises(r.exc) # ""
                          THEN [r EXCEPT !.exc = OuterRaises(RemoteRaises(r.exc))]
                          ELSE local_after(r.ops)

----------------------------------------------------------------------------
(* The state machine: a process with a fixed environment calling the two
   operations in any order *)

Sources == { <<layer, dataset>> : layer \in Layers, dataset \in Datasets }

EnvSpace ==
    [ STORAGE_BACKEND : {"local", "adls", "s3"},
      ADLS_ACCOUNT_NAME : {"", "acct"},
      ADLS_ACCOUNT_KEY : {"", "key"},
      ADLS_CONTAINER : {"", "cont"},
      ADLS_FALLBACK_TO_LOCAL : {"", "true"},
      DISABLE_LOCAL_SAMPLE : {"", "true"},
      DUAL_WRITE_SAMPLE_SIZE : {"0", "1"} ]

NoHist == [n |-> 0, strict |-> TRUE, name |-> <<>>, df |-> None]

\* no concurrent call started, no asset materialized, no command run
NoCalls == [container |-> FALSE, proc |-> <<>>]
NoStages == [done |-> {}, failed |-> {}]
NoCli ==
    [pc |-> "none", ui |-> FALSE, materialize |-> FALSE, asset |-> <<>>,
     status |-> FALSE, result |-> 0, started |-> <<>>, exit |-> 0]

Init ==
    /\ env \in EnvSpace
    /\ local = <<>>
    /\ adls = <<>>
    /\ last = [op |-> "none", layer |-> "", name |-> <<>>, df |-> None,
               exc |-> "", cause |-> <<>>, loc |-> NoLocation, ops |-> <<>>]
    /\ hist = [s \in Sources |-> NoHist]
    /\ nCalls = 0
    /\ nReads = 0
    /\ calls = NoCalls
    /\ stages = NoStages
    /\ cli = NoCli

\* the successful writes of one (layer, prefix): how many, the last one, and
\* whether every call so far returned with a stamp above the previous one
Record(h, filename, df, exc) ==
    IF exc # "" THEN [h EXCEPT !.strict = FALSE]
    ELSE [n |-> h.n + 1,
          strict |-> h.strict /\ (h.n = 0 \/ StrLess(h.name, filename)),
          name |-> filename, df |-> df]

\* one write_parquet call, while fewer than maxCalls have been made
Write(maxCalls) ==
    \E s \in Sources, ts \in 1..MaxStamp, df \in Tables, fault \in WriteFaults :
        LET layer == s[1]
            filename == FileName(s[1], s[2], ts)
            r == write_parquet(df, layer, filename, fault)
        IN  /\ nCalls < maxCalls
            /\ local' = r.local
            /\ adls' = r.adls
            /\ last' = [op |-> "write", layer |-> layer, name |-> filename, df |-> df,
                        exc |-> r.exc, cause |-> r.cause, loc |-> r.loc, ops |-> r.ops]
            /\ hist' = [hist EXCEPT ![s] = Record(hist[s], filename, df, r.exc)]
            /\ nCalls' = nCalls + 1
            /\ nReads' = 0
            /\ UNCHANGED <<env, others>>

WriteParquet == Write(MaxWrites)

ReadParquetLatest ==
    \E s \in Sources, fault \in ReadFaults :
        LET r == read_parquet_latest(s[1], Prefix(s[1], s[2]), fault)
        IN  /\ nReads < MaxReads
            /\ nReads' = nReads + 1
            /\ last' = [op |-> "read", layer |-> s[1], name |-> Prefix(s[1], s[2]),
                        df |-> r.df, exc |-> r.exc, cause |-> <<>>, loc |-> r.src,
                    ops |-> r.ops]
            /\ UNCHANGED <<env, local, adls, hist, nCalls, others>>

Next == WriteParquet \/ ReadParquetLatest

Spec == Init /\ [][Next]_vars

\* The write path alone: a process that only writes, MaxCalls times at most.
WriteParquetCall == Write(MaxCalls)

NextWrite == WriteParquetCall

SpecWrite == Init /\ [][NextWrite]_vars

\* A stage that writes and a stage that reads what was written: MaxCalls
\* writes at most, each followed by reads.
\* (the sample cap plays no part in a read: it is held at one row)
InitStage == Init /\ env.DUAL_WRITE_SAMPLE_SIZE = "1"

NextStage == WriteParquetCall \/ ReadParquetLatest

SpecStage == InitStage /\ [][NextStage]_vars

\* The effect of one write_parquet call with any arguments.
WriteCall(layer, filename, df, fault) ==
    LET r == write_parquet(df, layer, filename, fault)
    IN  /\ local' = r.local
        /\ adls' = r.adls
        /\ last' = [op |-> "write", layer |-> layer, name |-> filename, df |-> df,
                    exc |-> r.exc, cause |-> r.cause, loc |-> r.loc, ops |-> r.ops]
        /\ nCalls' = nCalls + 1
        /\ nReads' = 0
        /\ UNCHANGED <<env, hist, others>>

\* The effect of one read_parquet_latest call with any arguments.
ReadCall(layer, prefix, fault) ==
    LET r == read_parquet_latest(layer, prefix, fault)
    IN  /\ nReads' = nReads + 1
        /\ last' = [op |-> "read", layer |-> layer, name |-> prefix,
                    df |-> r.df, exc |-> r.exc, cause |-> <<>>, loc |-> r.src,
                    ops |-> r.ops]
        /\ UNCHANGED <<env, local, adls, hist, nCalls, others>>

\* The effect of one resolve_path call with any arguments.
ResolveCall(layer, filename) ==
    LET r == resolve_path(layer, filename)
    IN  /\ last' = [op |-> "resolve", layer |-> layer, name |-> filename,
                    df |-> None, exc |-> r.exc, cause |-> <<>>, loc |-> r.loc,
                    ops |-> <<>>]
        /\ UNCHANGED <<env, local, adls, hist, nCalls, nReads, others>>

\* Callers that pass anything: an absent table, an empty layer, an empty
\* file name or prefix, next to the arguments of the stages; under any
\* setting of STORAGE_BACKEND, and with no I/O failing.
ArgLayers == Layers \cup {""}
ArgNames == { FileName("bronze", "agents", ts) : ts \in 1..MaxStamp } \cup {<<>>}
ArgPrefixes == {Prefix("bronze", "agents"), <<>>}
ArgTables == Tables \cup {None}
NoFault == [upload |-> FALSE, sample |-> FALSE, full |-> FALSE]

EnvSpaceArgs ==
    [ STORAGE_BACKEND : {"", "local", "LOCAL", "adls", "ADLS", "s3"},
      ADLS_ACCOUNT_NAME : {"", "acct"},
      ADLS_ACCOUNT_KEY : {"", "key"},
      ADLS_CONTAINER : {"", "cont"},
      ADLS_FALLBACK_TO_LOCAL : {"", "true"},
      DISABLE_LOCAL_SAMPLE : {"", "true"},
      DUAL_WRITE_SAMPLE_SIZE : {"1"} ]

InitArgs ==
    /\ env \in EnvSpaceArgs
    /\ local = <<>>
    /\ adls = <<>>
    /\ last = [op |-> "none", layer |-> "", name |-> <<>>, df |-> None,
               exc |-> "", cause |-> <<>>, loc |-> NoLocation, ops |-> <<>>]
    /\ hist = [s \in Sources |-> NoHist]
    /\ nCalls = 0
    /\ nReads = 0
    /\ calls = NoCalls
    /\ stages = NoStages
    /\ cli = NoCli

WriteParquetArgs ==
    \E layer \in ArgLayers, filename \in ArgNames, df \in ArgTables :
        /\ nCalls < MaxWrites
        /\ WriteCall(layer, filename, df, NoFault)

ReadParquetLatestArgs ==
    \E layer \in ArgLayers, prefix \in ArgPrefixes :
        /\ nReads < MaxReads
        /\ ReadCall(layer, prefix, "none")

ResolvePath ==
    \E layer \in ArgLayers, filename \in ArgNames : ResolveCall(layer, filename)

NextArgs == WriteParquetArgs \/ ReadParquetLatestArgs \/ ResolvePath

SpecArgs == InitArgs /\ [][NextArgs]_vars

\* A layer with a subdirectory: the same dataset is written to the layer and
\* to an archive directory under it.
TreeLayers == {"bronze", "bronze/archive"}

WriteParquetTree ==
    \E layer \in TreeLayers, ts \in 1..MaxStamp, df \in Tables, fault \in WriteFaults :
        /\ nCalls < MaxWrites
        /\ WriteCall(layer, FileName("bronze", "agents", ts), df, fault)

NextTree == WriteParquetTree \/ ReadParquetLatest

SpecTree == Init /\ [][NextTree]_vars

\* resolve_path called with any layer and file name, between the writes of
\* a stage in which nothing fails.
ResolveLayers == ArgLayers \cup TreeLayers
PlainNames == { FileName("bronze", "agents", ts) : ts \in 1..MaxStamp }
ResolveNames == PlainNames \cup { InDir(f) : f \in PlainNames } \cup {<<>>}

ResolvePathAny ==
    \E layer \in ResolveLayers, filename \in ResolveNames : ResolveCall(layer, filename)

WriteParquetPlain ==
    \E layer \in Layers, filename \in PlainNames, df \in Tables :
        /\ nCalls < MaxCalls
        /\ WriteCall(layer, filename, df, NoFault)

NextResolve == ResolvePathAny \/ WriteParquetPlain

SpecResolve == InitArgs /\ [][NextResolve]_vars

\* A stage whose DUAL_WRITE_SAMPLE_SIZE may state no cap (not an integer,
\* negative, or unset), writing tables below and above the default cap.
SampleTables ==
    { DataFrame([i \in 1..n |-> i]) : n \in {0, MaxRows, DefaultCap + 1} }

EnvSpaceSample ==
    { e \in [ STORAGE_BACKEND : {"local", "adls"},
              ADLS_ACCOUNT_NAME : {"", "acct"},
              ADLS_ACCOUNT_KEY : {"", "key"},
              ADLS_CONTAINER : {"", "cont"},
              ADLS_FALLBACK_TO_LOCAL : {"", "true"},
              DISABLE_LOCAL_SAMPLE : {"", "true"},
              DUAL_WRITE_SAMPLE_SIZE : {"", "1", "-1", "abc"} ] :
        (e.ADLS_ACCOUNT_NAME = "") = (e.ADLS_ACCOUNT_KEY = "")
            /\ (e.ADLS_ACCOUNT_KEY = "") = (e.ADLS_CONTAINER = "") }

InitSample ==
    /\ env \in EnvSpaceSample
    /\ local = <<>>
    /\ adls = <<>>
    /\ last = [op |-> "none", layer |-> "", name |-> <<>>, df |-> None,
               exc |-> "", cause |-> <<>>, loc |-> NoLocation, ops |-> <<>>]
    /\ hist = [s \in Sources |-> NoHist]
    /\ nCalls = 0
    /\ nReads = 0
    /\ calls = NoCalls
    /\ stages = NoStages
    /\ cli = NoCli

WriteParquetSample ==
    \E filename \in PlainNames, df \in SampleTables, fault \in WriteFaults :
        /\ nCalls < MaxCalls
        /\ WriteCall("bronze", filename, df, fault)

NextSample == WriteParquetSample

SpecSample == InitSample /\ [][NextSample]_vars

----------------------------------------------------------------------------
(* Reading the record of the last call *)

Wrote == last.op = "write"
Attempted(step) == \E i \in 1..Len(last.ops) : last.ops[i].step = step
Succeeded(step) == \E i \in 1..Len(last.ops) : last.ops[i].step = step /\ last.ops[i].ok
Failed(step) == \E i \in 1..Len(last.ops) : last.ops[i].step = step /\ ~last.ops[i].ok

\* the (layer, dataset) a file name or prefix belongs to
SourceOf(name) == <<name[1], name[2]>>

\* the objects of the last write_parquet call
FullLocal == FsPath(LocalPath(last.layer, last.name))
SampleLocal == FsPath(LocalPath(last.layer, SampleName(last.name)))

----------------------------------------------------------------------------
(* Claims *)

\* C1: after successful writes to one (layer, prefix) with strictly
\* increasing stamps, under a fixed configuration and whatever the remote
\* attempts did, a read_parquet_latest of that prefix (with nothing failing
\* during the read) returns the table of the most recent write.
C1_ReadReturnsLatestWrite ==
    \A s \in Sources :
        (hist[s].n > 0 /\ hist[s].strict) =>
            LET r == read_parquet_latest(s[1], Prefix(s[1], s[2]), "none")
            IN  r.exc = "" /\ r.df = hist[s].df

\* C2: round trip: right after the first successful write_parquet of a
\* dataset, read_parquet_latest with the dataset prefix of the file name
\* (nothing failing during the read) returns the table that was written.
C2_RoundTrip ==
    (Wrote /\ last.exc = "" /\ hist[SourceOf(last.name)].n = 1) =>
        LET r == read_parquet_latest(last.layer, SourceOf(last.name), "none")
        IN  r.exc = "" /\ r.df = last.df

\* C3: when the remote upload is attempted and fails and
\* ADLS_FALLBACK_TO_LOCAL is not "true", write_parquet raises the
\* remote-write error and writes nothing: local and remote storage are as
\* before the call and the sample write is not attempted.
C3_RemoteFailureWritesNothing ==
    [][ (last'.op = "write" /\ Failed("upload")'
            /\ env.ADLS_FALLBACK_TO_LOCAL # "true")
        => /\ last'.exc = "RuntimeError"
           /\ local' = local
           /\ adls' = adls
           /\ ~Attempted("sample")' ]_vars

C3_Witness ==
    /\ Wrote /\ Failed("upload") /\ env.ADLS_FALLBACK_TO_LOCAL # "true"
    /\ last.exc = "RuntimeError"
    /\ env.STORAGE_BACKEND = "adls" /\ is_adls_configured
    /\ env.DISABLE_LOCAL_SAMPLE # "true"
    /\ SampleLocal \notin DOMAIN local

\* C4: whenever the remote upload of write_parquet succeeds, the returned
\* path is the abfss URI of the object, for STORAGE_BACKEND=adls and for
\* STORAGE_BACKEND=local with the three credentials present alike.
C4_ReturnsRemoteUri ==
    (Wrote /\ Succeeded("upload")) =>
        last.loc = AbfssUri(env.ADLS_CONTAINER, env.ADLS_ACCOUNT_NAME,
                            last.layer, last.name)

\* C5: under a recognised STORAGE_BACKEND, write_parquet attempts the remote
\* upload if and only if STORAGE_BACKEND is adls or the three credentials are
\* all non-empty.
C5_RemoteAttemptedIffConfigured ==
    (Wrote /\ env.STORAGE_BACKEND \in {"local", "adls"}) =>
        (Attempted("upload") <=>
            \/ env.STORAGE_BACKEND = "adls"
            \/ /\ env.ADLS_ACCOUNT_NAME # ""
               /\ env.ADLS_ACCOUNT_KEY # ""
               /\ env.ADLS_CONTAINER # "")

C5_Witness ==
    /\ Wrote /\ env.STORAGE_BACKEND = "local"
    /\ env.ADLS_ACCOUNT_NAME # "" /\ env.ADLS_ACCOUNT_KEY # ""
    /\ env.ADLS_CONTAINER # ""
    /\ Attempted("upload")

\* C6: when the remote upload fails and ADLS_FALLBACK_TO_LOCAL is "true",
\* write_parquet goes on to the full local write as the primary; it raises
\* only if that local write fails, and otherwise returns the local path,
\* where the full table then is.
C6_FallbackWritesLocalPrimary ==
    (Wrote /\ Failed("upload") /\ env.ADLS_FALLBACK_TO_LOCAL = "true") =>
        /\ Attempted("primary")
        /\ last.exc # "" => Failed("primary")
        /\ Succeeded("primary") =>
              /\ last.exc = ""
              /\ last.loc = LocalPath(last.layer, last.name)
              /\ FullLocal \in DOMAIN local
              /\ local[FullLocal] = last.df

C6_Witness ==
    /\ Wrote /\ Failed("upload") /\ env.ADLS_FALLBACK_TO_LOCAL = "true"
    /\ Succeeded("primary") /\ last.exc = ""
    /\ Len(last.df.rows) > 0

\* C7: a write_parquet call whose remote upload succeeds while
\* ADLS_FALLBACK_TO_LOCAL is not "true" creates no local object other than
\* the sample: every other local object was there before, unchanged.
C7_NoMirrorWithoutFallback ==
    [][ (last'.op = "write" /\ Succeeded("upload")'
            /\ env.ADLS_FALLBACK_TO_LOCAL # "true")
        => \A p \in DOMAIN local' :
              \/ p = SampleLocal'
              \/ p \in DOMAIN local /\ local'[p] = local[p] ]_vars

C7_Witness ==
    /\ Wrote /\ Succeeded("upload") /\ env.ADLS_FALLBACK_TO_LOCAL # "true"
    /\ last.exc = ""
    /\ FullLocal \notin DOMAIN local
    /\ SampleLocal \in DOMAIN local

\* the row cap k that DUAL_WRITE_SAMPLE_SIZE states, -1 when it states none
StatedCap ==
    CASE env.DUAL_WRITE_SAMPLE_SIZE = "0" -> 0
      [] env.DUAL_WRITE_SAMPLE_SIZE = "1" -> 1
      [] env.DUAL_WRITE_SAMPLE_SIZE = "2" -> 2
      [] env.DUAL_WRITE_SAMPLE_SIZE = "3" -> 3
      [] OTHER -> -1

\* C8: with DUAL_WRITE_SAMPLE_SIZE = k >= 0 and a table of n rows, the
\* sample object that write_parquet produces holds the first min(k, n) rows
\* of the table, in order.
C8_SampleIsFirstMinRows ==
    (Wrote /\ Succeeded("sample") /\ StatedCap >= 0) =>
        /\ SampleLocal \in DOMAIN local
        /\ local[SampleLocal].rows =
              [i \in 1..Min(StatedCap, Len(last.df.rows)) |-> last.df.rows[i]]

C8_Witness ==
    /\ Wrote /\ Succeeded("sample")
    /\ StatedCap >= 1 /\ Len(last.df.rows) > StatedCap
    /\ Len(local[SampleLocal].rows) = StatedCap

\* C9: after a write_parquet call that returns while no local write fails,
\* the sample object exists if and only if DISABLE_LOCAL_SAMPLE is not
\* "true", whether the primary went to the remote or to the local backend.
C9_SampleIffNotDisabled ==
    (Wrote /\ last.exc = ""
        /\ ~Failed("sample") /\ ~Failed("mirror") /\ ~Failed("primary")) =>
        (SampleLocal \in DOMAIN local <=> env.DISABLE_LOCAL_SAMPLE # "true")

C9_Witness ==
    /\ Wrote /\ last.exc = "" /\ Succeeded("upload")
    /\ ~Attempted("mirror")
    /\ env.DISABLE_LOCAL_SAMPLE # "true"
    /\ SampleLocal \in DOMAIN local

\* C10: a failed sample write or a failed mirror write never makes
\* write_parquet raise and never changes its result: after a successful
\* upload the call returns the path of the upload, where the table is;
\* otherwise the result is that of the local primary write alone.
C10_SideWriteFailuresSwallowed ==
    (Wrote /\ (Failed("sample") \/ Failed("mirror"))) =>
        IF Succeeded("upload")
        THEN /\ last.exc = ""
             /\ last.loc = resolve_path(last.layer, last.name).loc
             /\ ContainerPath(last.loc) \in DOMAIN adls
             /\ adls[ContainerPath(last.loc)] = last.df
        ELSE /\ Attempted("primary")
             /\ Failed("primary") => last.exc = "RuntimeError"
             /\ Succeeded("primary") =>
                   /\ last.exc = ""
                   /\ last.loc = LocalPath(last.layer, last.name)
                   /\ FullLocal \in DOMAIN local
                   /\ local[FullLocal] = last.df

C10_Witness ==
    /\ Wrote /\ Failed("sample") /\ Failed("mirror")
    /\ last.exc = ""

\* the file names of a listing that a read with this prefix selects among
Matching(names, prefix) ==
    { n \in names : startswith(n, prefix) /\ endswith_parquet(n) }

\* the file names of the objects of a layer, in the container and locally
RemoteNames(layer) ==
    { p.name : p \in { q \in DOMAIN adls :
                          startswith(q.dir, _adls_base_path \o split(layer)) } }
LocalNames(layer) ==
    { p.name : p \in { q \in DOMAIN local : q.dir = DATA_DIR \o split(layer) } }

\* C11: a read_parquet_latest call that returns a table has loaded, among
\* the objects of the layer whose file name starts with the prefix and ends
\* with .parquet, one whose file name is the lexicographically greatest, in
\* the remote listing and in the local scan alike.
C11_LoadsGreatestFileName ==
    (last.op = "read" /\ last.exc = "") =>
        LET names == IF Succeeded("remote_download")
                     THEN RemoteNames(last.layer)
                     ELSE LocalNames(last.layer)
        IN  last.loc.name = StrMax(Matching(names, last.name))

\* C12: read_parquet_latest raises FileNotFoundError, as it is, whenever the
\* listing of the backend it reads (the remote layer directory when the
\* remote listing worked, the local layer directory otherwise) holds no
\* object matching the prefix and .parquet; it then returns no table.
C12_NoMatchRaisesNotFound ==
    (last.op = "read" /\ last.layer # "" /\ last.name # <<>>
        /\ get_storage_backend.exc = "") =>
        LET names == IF Succeeded("remote_list")
                     THEN RemoteNames(last.layer)
                     ELSE LocalNames(last.layer)
        IN  Matching(names, last.name) = {} =>
                last.exc = "FileNotFoundError" /\ last.df = None

\* the remote side of the last read failed at some step
RemoteSideFailed ==
    \/ Failed("credentials") \/ Failed("import") \/ Failed("client")
    \/ Failed("remote_list") \/ Failed("remote_download")

\* C13: with STORAGE_BACKEND=adls, a read_parquet_latest call whose remote
\* side fails (credentials missing, client library missing, client
\* construction, listing or download failing) goes on to the local read and
\* ends as the local read ends: FileNotFoundError when no local file
\* matches, RuntimeError when the latest local file cannot be read, and
\* otherwise the table of the latest local file; whatever
\* ADLS_FALLBACK_TO_LOCAL holds.
C13_RemoteFailureReadsLocal ==
    (last.op = "read" /\ lower(env.STORAGE_BACKEND) = "adls" /\ RemoteSideFailed) =>
        LET candidates == Matching(LocalNames(last.layer), last.name)
            latest == [dir |-> DATA_DIR \o split(last.layer),
                       name |-> StrMax(candidates)]
        IN  /\ Attempted("local_list")
            /\ IF candidates = {} THEN last.exc = "FileNotFoundError"
               ELSE IF Failed("local_read") THEN last.exc = "RuntimeError"
               ELSE last.exc = "" /\ last.df = local[latest]

C13_Witness ==
    /\ last.op = "read" /\ env.STORAGE_BACKEND = "adls"
    /\ Failed("remote_download")
    /\ last.exc = "" /\ Len(last.df.rows) > 0

\* C14: stored objects are immutable: no call removes an object of the local
\* or the remote store or changes the content it holds.
C14_ObjectsImmutable ==
    [][ /\ \A p \in DOMAIN local : p \in DOMAIN local' /\ local'[p] = local[p]
        /\ \A p \in DOMAIN adls : p \in DOMAIN adls' /\ adls'[p] = adls[p] ]_vars

\* C15: write_parquet called with an absent table, an empty layer or an
\* empty file name, and read_parquet_latest called with an empty layer or an
\* empty prefix, raise ValueError before any I/O: no upload, no listing, no
\* local write is attempted and both stores are as before the call.
C15_ValidationBeforeIO ==
    [][ ( \/ /\ last'.op = "write"
             /\ (last'.df.none \/ last'.layer = "" \/ last'.name = <<>>)
          \/ /\ last'.op = "read"
             /\ (last'.layer = "" \/ last'.name = <<>>) )
        => /\ last'.exc = "ValueError"
           /\ last'.ops = <<>>
           /\ local' = local
           /\ adls' = adls ]_vars

C15_Witness ==
    /\ Wrote /\ last.df.none /\ last.layer # "" /\ last.name # <<>>
    /\ last.exc = "ValueError"
    /\ env.STORAGE_BACKEND = "adls" /\ is_adls_configured
    /\ DOMAIN adls # {} /\ DOMAIN local # {}

\* the last call was made with arguments that pass the validation
ValidArgs ==
    /\ last.layer # "" /\ last.name # <<>>
    /\ last.op = "write" => ~last.df.none

\* C16: under a STORAGE_BACKEND that is neither local nor adls in any case,
\* resolve_path, write_parquet and read_parquet_latest raise ValueError,
\* attempt no I/O and leave both stores as they were; under an unset or
\* empty STORAGE_BACKEND they do what they do under local: resolve_path
\* returns the local path, read_parquet_latest scans the local directory
\* without any remote step, and write_parquet uploads only when the three
\* credentials are set.
C16_UnknownBackendFails ==
    [][ (last'.op \in {"resolve", "write", "read"})
        => /\ (env.STORAGE_BACKEND \notin {"", "local", "LOCAL", "adls", "ADLS"})
                => /\ last'.exc = "ValueError"
                   /\ last'.ops = <<>>
                   /\ local' = local
                   /\ adls' = adls
           /\ (env.STORAGE_BACKEND = "" /\ ValidArgs')
                => /\ last'.op = "resolve"
                        => /\ last'.exc = ""
                           /\ last'.loc = LocalPath(last'.layer, last'.name)
                   /\ last'.op = "read"
                        => /\ Attempted("local_list")'
                           /\ last'.ops[1].step = "local_list"
                   /\ last'.op = "write"
                        => (Attempted("upload")' <=> is_adls_configured) ]_vars

C16_Witness ==
    /\ Wrote /\ ValidArgs
    /\ env.STORAGE_BACKEND = "s3" /\ is_adls_configured
    /\ last.exc = "ValueError"

\* at least one of the three credentials is missing or empty
PartialCredentials ==
    \/ env.ADLS_ACCOUNT_NAME = ""
    \/ env.ADLS_ACCOUNT_KEY = ""
    \/ env.ADLS_CONTAINER = ""

\* C17: when at least one of the three credentials is missing,
\* is_adls_configured is false, and a write_parquet call (valid arguments,
\* recognised backend) makes no remote attempt and goes to the full local
\* write as the primary: it raises only if that local write fails and
\* otherwise returns the local path, where the table then is; under
\* STORAGE_BACKEND local and adls, with and without fallback.
C17_PartialCredentialsWriteLocal ==
    (Wrote /\ ValidArgs /\ PartialCredentials
        /\ env.STORAGE_BACKEND \in {"", "local", "LOCAL", "adls", "ADLS"}) =>
        /\ ~is_adls_configured
        /\ ~Attempted("upload")
        /\ Attempted("primary")
        /\ Succeeded("primary") =>
              /\ last.exc = ""
              /\ last.loc = LocalPath(last.layer, last.name)
              /\ FullLocal \in DOMAIN local
              /\ local[FullLocal] = last.df

\* the backend kind that STORAGE_BACKEND states, "" when it states none
BackendKind ==
    CASE env.STORAGE_BACKEND \in {"", "local", "LOCAL"} -> "local"
      [] env.STORAGE_BACKEND \in {"adls", "ADLS"} -> "adls"
      [] OTHER -> ""

\* <DATA_DIR>/<layer>/<filename> and
\* abfss://<container>@<account>.dfs.core.windows.net/<basePath>/<layer>/<filename>
\* as locations
StatedLocation(layer, filename) ==
    IF BackendKind = "local"
    THEN [scheme |-> "", netloc |-> <<>>,
          dir |-> <<"data">> \o split(layer) \o dirname(filename),
          name |-> basename(filename)]
    ELSE [scheme |-> "abfss",
          netloc |-> <<env.ADLS_CONTAINER, env.ADLS_ACCOUNT_NAME>>,
          dir |-> <<"dna-platform", "data">> \o split(layer) \o dirname(filename),
          name |-> basename(filename)]

\* resolve_path returns distinct locations for distinct pairs of these
\* layers and file names, wherever it returns for both
DistinctLocations(layers, names) ==
    \A l1 \in layers, l2 \in layers, f1 \in names, f2 \in names :
        ( /\ <<l1, f1>> # <<l2, f2>>
          /\ resolve_path(l1, f1).exc = ""
          /\ resolve_path(l2, f2).exc = "" )
        => resolve_path(l1, f1).loc # resolve_path(l2, f2).loc

ProtocolStep(step) ==
    CASE step = "upload" -> 2
      [] step = "mirror" -> 3
      [] step = "sample" -> 4
      [] step = "primary" -> 5

\* C19: the storage steps of a write_parquet call happen in the order of
\* the protocol: remote upload, then the local mirror, then the local
\* sample, then the local primary; the mirror is never written after the
\* sample.
C19_ProtocolOrder ==
    Wrote =>
        \A i \in 1..Len(last.ops), j \in 1..Len(last.ops) :
            i < j => ProtocolStep(last.ops[i].step) < ProtocolStep(last.ops[j].step)

\* the last read went to the remote side first
ReadWentRemote ==
    /\ last.ops # <<>>
    /\ last.ops[1].step \in {"import", "client", "remote_list"}

\* C20: read_parquet_latest goes to the remote side by the rule that makes
\* write_parquet upload: whenever the three credentials are set, a read
\* with valid arguments under a recognised backend turns to the remote
\* layer directory before anything local, also under STORAGE_BACKEND=local.
C20_ReadFollowsWriteRule ==
    (last.op = "read" /\ ValidArgs /\ get_storage_backend.exc = ""
        /\ is_adls_configured)
    => ReadWentRemote

\* C21: when no remote path was produced and the full local write fails,
\* write_parquet raises RuntimeError, with the original failure in the
\* chain of causes of the error, and returns no path: the failure of the
\* local primary is never swallowed.
C21_PrimaryFailureFatal ==
    (Wrote /\ Failed("primary")) =>
        /\ ~Succeeded("upload")
        /\ last.exc = "RuntimeError"
        /\ \E i \in 1..Len(last.cause) : last.cause[i] = "OSError"
        /\ last.loc = NoLocation

C21_Witness ==
    /\ Wrote /\ Failed("primary") /\ Failed("upload")
    /\ env.ADLS_FALLBACK_TO_LOCAL = "true"
    /\ last.exc = "RuntimeError" /\ last.cause # <<>>

\* a table with rows, to compare the handling of the empty one with
FullTable == DataFrame([i \in 1..MaxRows |-> i])

\* C22: a write_parquet call with a table of zero rows runs the protocol of
\* a call with a non-empty table: in the same environment and with the same
\* failures it takes the same steps with the same outcomes and returns the
\* same path or error; the primary object it stores, and the sample unless
\* disabled, hold zero rows.
C22_EmptyTableWritten ==
    [][ (last'.op = "write" /\ ~last'.df.none /\ last'.df.rows = <<>>
            /\ last'.layer # "" /\ last'.name # <<>>)
        => /\ \E fault \in WriteFaults :
                 LET r == write_parquet(FullTable, last'.layer, last'.name, fault)
                 IN  /\ r.exc = last'.exc
                     /\ r.loc = last'.loc
                     /\ r.ops = last'.ops
           /\ Succeeded("upload")' =>
                 adls'[ContainerPath(resolve_path(last'.layer, last'.name).loc)]
                     = DataFrame(<<>>)
           /\ Succeeded("primary")' => local'[FullLocal'] = DataFrame(<<>>)
           /\ Succeeded("sample")' => local'[SampleLocal'] = DataFrame(<<>>) ]_vars

C22_Witness ==
    /\ Wrote /\ ~last.df.none /\ last.df.rows = <<>>
    /\ last.exc = "" /\ Succeeded("primary") /\ Succeeded("sample")
    /\ local[FullLocal] = DataFrame(<<>>)
    /\ local[SampleLocal] = DataFrame(<<>>)
    /\ last.loc = LocalPath(last.layer, last.name)

\* DUAL_WRITE_SAMPLE_SIZE is set and is no row cap: not an integer, or negative
InvalidCap == env.DUAL_WRITE_SAMPLE_SIZE \in {"-1", "abc"}

\* C23: when DUAL_WRITE_SAMPLE_SIZE is not a valid row cap, write_parquet
\* does not fail on it: the sample is written unless disabled, holds the
\* first min(50, n) rows of the n-row table, and the primary object holds
\* the whole table.
C23_InvalidCapDefaults ==
    (Wrote /\ InvalidCap) =>
        /\ (last.exc = "" /\ env.DISABLE_LOCAL_SAMPLE # "true") => Attempted("sample")
        /\ Succeeded("sample") =>
              local[SampleLocal].rows =
                  [i \in 1..Min(50, Len(last.df.rows)) |-> last.df.rows[i]]
        /\ Succeeded("primary") => last.exc = "" /\ local[FullLocal] = last.df
        /\ Succeeded("upload") =>
              /\ last.exc = ""
              /\ adls[ContainerPath(resolve_path(last.layer, last.name).loc)] = last.df
        /\ last.exc # "" =>
              \/ Failed("primary")
              \/ Failed("upload") /\ env.ADLS_FALLBACK_TO_LOCAL # "true"

C23_Witness ==
    /\ Wrote /\ InvalidCap /\ Succeeded("sample") /\ last.exc = ""
    /\ Len(last.df.rows) = 51
    /\ Len(local[SampleLocal].rows) = 50

----------------------------------------------------------------------------
(* Concurrent calls: stages that the orchestrator runs in parallel. Two
   write_parquet calls on distinct file names and one read_parquet_latest
   run step by step in any interleaving; the environment fails nothing.

   calls.container: whether the container exists in the storage account.
   calls.proc[i]: one call; pc is where it is in its code, adls_path the
   result of its upload, exc/loc/df what it returned once pc = "done",
   alone what the same call does when nothing else runs. *)

EnvSpaceConc ==
    { e \in EnvSpace :
        /\ e.STORAGE_BACKEND \in {"local", "adls"}
        /\ e.ADLS_ACCOUNT_NAME = "" <=> e.ADLS_ACCOUNT_KEY = ""
        /\ e.ADLS_ACCOUNT_NAME = "" <=> e.ADLS_CONTAINER = ""
        /\ e.DISABLE_LOCAL_SAMPLE = ""
        /\ e.DUAL_WRITE_SAMPLE_SIZE = "1" }

Writer(layer, filename, df) ==
    LET r == write_parquet(df, layer, filename, NoFault)
    IN  [kind |-> "write", layer |-> layer, name |-> filename, df |-> df,
         pc |-> "begin", adls_path |-> NoLocation, exc |-> "", loc |-> NoLocation,
         alone |-> [exc |-> r.exc, loc |-> r.loc, local |-> r.local, adls |-> r.adls]]

Reader(layer, prefix) ==
    [kind |-> "read", layer |-> layer, name |-> prefix, df |-> None,
     pc |-> "begin", adls_path |-> NoLocation, exc |-> "", loc |-> NoLocation,
     alone |-> [exc |-> "", loc |-> NoLocation, local |-> <<>>, adls |-> <<>>]]

\* two stages write their datasets while a third reads the first one's
InitConc ==
    /\ env \in EnvSpaceConc
    /\ local = <<>>
    /\ adls = <<>>
    /\ last = [op |-> "none", layer |-> "", name |-> <<>>, df |-> None, exc |-> "",
               cause |-> <<>>, loc |-> NoLocation, ops |-> <<>>]
    /\ hist = NoHist
    /\ nCalls = 0
    /\ nReads = 0
    /\ \E container \in BOOLEAN, s1 \in Sources, s2 \in Sources :
          /\ s1 # s2
          /\ calls = [container |-> container,
                      proc |-> << Writer(s1[1], FileName(s1[1], s1[2], 1), FullTable),
                                  Writer(s2[1], FileName(s2[1], s2[2], 1), FullTable),
                                  Reader(s1[1], Prefix(s1[1], s1[2])) >>]
    /\ stages = NoStages
    /\ cli = NoCli

Procs == DOMAIN calls.proc

At(i, kind, pc) == calls.proc[i].kind = kind /\ calls.proc[i].pc = pc

Goto(i, pc) == [calls EXCEPT !.proc[i].pc = pc]

Return(c, i, exc, loc) ==
    [c EXCEPT !.proc[i].pc = "done", !.proc[i].exc = exc, !.proc[i].loc = loc]

\* lines 242-260: after the sample, the mirror or the primary is written
\* unless the upload succeeded and no mirror is wanted
AfterSample(c, i) ==
    IF c.proc[i].adls_path # NoLocation /\ ~MirrorWanted
    THEN Return(c, i, "", c.proc[i].adls_path)
    ELSE [c EXCEPT !.proc[i].pc = "full_open"]

\* lines 213-217: after the upload, the sample unless disabled
AfterUpload(c, i) ==
    IF disable_local THEN AfterSample(c, i)
    ELSE [c EXCEPT !.proc[i].pc = "sample_open"]

\* lines 205-211: the except clause around the upload
UploadFailed(c, i, exc) ==
    IF UploadRaises(exc) # "" THEN Return(c, i, UploadRaises(exc), NoLocation)
    ELSE AfterUpload(c, i)

\* lines 183-198 and 105-132: validation, backend, and what the upload
\* checks before it talks to the storage account
BeginWrite(i) ==
    /\ At(i, "write", "begin")
    /\ LET p == calls.proc[i]
           b == get_storage_backend
           r == resolve_path(p.layer, p.name)
       IN  calls' =
             IF write_args_invalid(p.df, p.layer, p.name)
             THEN Return(calls, i, "ValueError", NoLocation)
             ELSE IF b.exc # "" THEN Return(calls, i, b.exc, NoLocation)
             ELSE IF ~adls_configured(b.backend) THEN AfterUpload(calls, i)
             ELSE IF r.exc # "" THEN UploadFailed(calls, i, r.exc)
             ELSE IF \/ _load_env("ADLS_ACCOUNT_NAME", "") = ""
                     \/ _load_env("ADLS_ACCOUNT_KEY", "") = ""
                     \/ _load_env("ADLS_CONTAINER", "") = ""
             THEN UploadFailed(calls, i, "ValueError")
             ELSE Goto(i, "probe")
    /\ UNCHANGED <<env, local, adls, last, hist, nCalls, nReads, stages, cli>>

\* lines 152-154: get_file_system_properties() raises when the container
\* does not exist
ProbeContainer(i) ==
    /\ At(i, "write", "probe")
    /\ calls' = Goto(i, IF calls.container THEN "upload" ELSE "create")
    /\ UNCHANGED <<env, local, adls, last, hist, nCalls, nReads, stages, cli>>

\* lines 155-157 and 176-178: create_file_system() creates the container;
\* the storage account refuses to create a container that exists, and the
\* exception leaves write_azure_data_lake as RuntimeError
CreateContainer(i) ==
    /\ At(i, "write", "create")
    /\ calls' = IF calls.container
                THEN UploadFailed(calls, i, "RuntimeError")
                ELSE [Goto(i, "upload") EXCEPT !.container = TRUE]
    /\ UNCHANGED <<env, local, adls, last, hist, nCalls, nReads, stages, cli>>

\* lines 160-174: upload_data(..., overwrite=True)
Upload(i) ==
    /\ At(i, "write", "upload")
    /\ LET p == calls.proc[i]
           w == write_azure_data_lake(adls, p.df, p.layer, p.name, FALSE)
       IN  /\ adls' = w.adls
           /\ calls' = AfterUpload([calls EXCEPT !.proc[i].adls_path = w.loc], i)
    /\ UNCHANGED <<env, local, last, hist, nCalls, nReads, stages, cli>>

\* lines 272-275: df.write_parquet(output_path) creates the file under its
\* final name ...
SampleOpen(i) ==
    /\ At(i, "write", "sample_open")
    /\ LET p == calls.proc[i]
       IN  local' = Put(local, FsPath(LocalPath(p.layer, SampleName(p.name))),
                        Incomplete)
    /\ calls' = Goto(i, "sample_close")
    /\ UNCHANGED <<env, adls, last, hist, nCalls, nReads, stages, cli>>

\* ... and then fills it
SampleClose(i) ==
    /\ At(i, "write", "sample_close")
    /\ LET p == calls.proc[i]
       IN  local' = WriteSample(local, p.df, p.layer, p.name, FALSE).local
    /\ calls' = AfterSample(calls, i)
    /\ UNCHANGED <<env, adls, last, hist, nCalls, nReads, stages, cli>>

FullOpen(i) ==
    /\ At(i, "write", "full_open")
    /\ LET p == calls.proc[i]
       IN  local' = Put(local, FsPath(LocalPath(p.layer, p.name)), Incomplete)
    /\ calls' = Goto(i, "full_close")
    /\ UNCHANGED <<env, adls, last, hist, nCalls, nReads, stages, cli>>

FullClose(i) ==
    /\ At(i, "write", "full_close")
    /\ LET p == calls.proc[i]
           f == WriteFull(local, p.adls_path, p.df, p.layer, p.name, FALSE)
       IN  /\ local' = f.local
           /\ calls' = Return(calls, i, f.exc, f.loc)
    /\ UNCHANGED <<env, adls, last, hist, nCalls, nReads, stages, cli>>

\* the whole read_parquet_latest call, between two steps of the writers
\* (the files it lists are never removed, so reading right after listing
\* loses no outcome)
ReadConc(i) ==
    /\ At(i, "read", "begin")
    /\ LET p == calls.proc[i]
           r == read_parquet_latest(p.layer, p.name, "none")
       IN  calls' = [Return(calls, i, r.exc, r.src) EXCEPT !.proc[i].df = r.df]
    /\ UNCHANGED <<env, local, adls, last, hist, nCalls, nReads, stages, cli>>

WriteStep ==
    \E i \in Procs :
        \/ BeginWrite(i) \/ ProbeContainer(i) \/ CreateContainer(i) \/ Upload(i)
        \/ SampleOpen(i) \/ SampleClose(i) \/ FullOpen(i) \/ FullClose(i)

ReadStep == \E i \in Procs : ReadConc(i)

NextConc == WriteStep \/ ReadStep

SpecConc == InitConc /\ [][NextConc]_vars

Done(i) == calls.proc[i].pc = "done"

Writers == { i \in Procs : calls.proc[i].kind = "write" }

\* C24: two write_parquet calls that run concurrently on distinct
\* (layer, filename) pairs do not interfere: under every interleaving each
\* call returns what it returns when it runs alone (the same path, or the
\* same exception) and leaves the objects it leaves when it runs alone,
\* with the same contents, and once both have returned the stores hold
\* nothing else.
C24_ConcurrentWritesIndependent ==
    /\ \A i \in Writers : Done(i) =>
          LET p == calls.proc[i]
          IN  /\ p.exc = p.alone.exc
              /\ p.loc = p.alone.loc
              /\ \A k \in DOMAIN p.alone.local :
                    k \in DOMAIN local /\ local[k] = p.alone.local[k]
              /\ \A k \in DOMAIN p.alone.adls :
                    k \in DOMAIN adls /\ adls[k] = p.alone.adls[k]
    /\ (\A i \in Writers : Done(i)) =>
          /\ DOMAIN local = UNION { DOMAIN calls.proc[i].alone.local : i \in Writers }
          /\ DOMAIN adls = UNION { DOMAIN calls.proc[i].alone.adls : i \in Writers }

Readers == { i \in Procs : calls.proc[i].kind = "read" }

\* C27: a read_parquet_latest that runs concurrently with a write_parquet
\* to the same layer and prefix never selects an object whose write has not
\* completed: whenever it returns, it returns the full table of a write to
\* that prefix, or raises the not-found error; it never fails on, or
\* returns part of, a file that is still being written under its final name.
C27_ReadSeesCompletedWritesOnly ==
    \A i \in Readers : Done(i) =>
        LET p == calls.proc[i]
        IN  /\ p.exc \in {"", "FileNotFoundError"}
            /\ p.exc = "" =>
                  \E w \in Writers :
                      /\ calls.proc[w].layer = p.layer
                      /\ startswith(calls.proc[w].name, p.name)
                      /\ p.df = calls.proc[w].df

\* f"{base_path}/{layer}".strip("/"): the directory of the container that a
\* remote read_parquet_latest lists for a layer
ListedDirectory(layer) == _adls_base_path \o split(layer)

\* C25: every object that write_parquet uploads is stored in the container
\* under <basePath>/<layer>/<filename>, inside the directory that a remote
\* read_parquet_latest lists for that layer, in every configuration in which
\* the upload is attempted (STORAGE_BACKEND=local with all credentials
\* included).
C25_UploadedUnderBasePath ==
    /\ (Wrote /\ Succeeded("upload")) =>
          LET k == [dir |-> ListedDirectory(last.layer) \o dirname(last.name),
                    name |-> basename(last.name)]
          IN  k \in DOMAIN adls /\ adls[k] = last.df
    /\ \A k \in DOMAIN adls : startswith(k.dir, _adls_base_path)

\* C26: every write_parquet call that raises leaves local storage exactly
\* as it was before the call: whichever step failed, no sample, mirror or
\* primary object created by that call remains.
C26_RaisingWriteLeavesLocalUntouched ==
    [][ (last'.op = "write" /\ last'.exc # "") => local' = local ]_vars

\* the file names the stages write, and the names of their samples
FullNames == { FileName(s[1], s[2], ts) : s \in Sources, ts \in 1..Len(Stamps) }
SampleNames == { SampleName(f) : f \in FullNames }

\* the object a read returned
ObjectAt(loc) ==
    IF loc.scheme = "adls" THEN adls[ContainerPath(loc)] ELSE local[FsPath(loc)]

\* C29: after any sequence of write_parquet calls, read_parquet_latest with
\* a dataset prefix <layer>_<dataset>_ never returns a row-capped sample:
\* no object named sample_<filename> matches the prefix, and the table
\* returned is the content of a full copy (primary, mirror or upload) named
\* <layer>_<dataset>_<stamp>.parquet.
C29_SamplesNeverRead ==
    last.op = "read" =>
        /\ \A k \in DOMAIN local \cup DOMAIN adls :
              k.name \in SampleNames => ~startswith(k.name, last.name)
        /\ last.exc = "" =>
              /\ last.loc.name \notin SampleNames
              /\ last.loc.name \in FullNames
              /\ startswith(last.loc.name, last.name)
              /\ last.df = ObjectAt(last.loc)

C29_Witness ==
    /\ last.op = "read" /\ last.exc = ""
    /\ \E k \in DOMAIN local :
          /\ k.name = SampleName(last.loc.name)
          /\ k.dir = DATA_DIR \o split(last.layer)
          /\ Len(local[k].rows) < Len(last.df.rows)

----------------------------------------------------------------------------
(* The pipeline: the assets the orchestrator materializes. An asset is
   started once every asset of its deps has completed; its stage reads its
   inputs with read_parquet_latest and writes its output with write_parquet.

   name: the asset; deps: its deps=[...]; reads: the (layer, dataset) of the
   prefixes its stage reads; writes: the (layer, dataset) of the file its
   stage writes. *)

Asset(name, deps, reads, writes) ==
    [name |-> name, deps |-> deps, reads |-> reads, writes |-> writes]

BronzeAssets ==
    { Asset("run_bronze_" \o d, {}, {}, <<"bronze", d>>) :
        d \in {"agents", "claims", "customers", "payments", "policies", "vehicles"} }

\* (run_silver_clean_policies is imported by the package next to its five
\* siblings; it is taken to be declared like them)
SilverAssets ==
    { Asset("run_silver_clean_" \o d, {"run_bronze_" \o d}, {<<"bronze", d>>},
            <<"silver", "clean_" \o d>>) :
        d \in {"agents", "claims", "customers", "payments", "policies", "vehicles"} }
    \cup
    { Asset("run_silver_customer_policies",
            {"run_silver_clean_customers", "run_silver_clean_policies"},
            {<<"silver", "clean_customers">>, <<"silver", "clean_policies">>},
            <<"silver", "customer_policies">>),
      Asset("run_silver_policy_claims",
            {"run_silver_clean_policies", "run_silver_clean_claims"},
            {<<"silver", "clean_policies">>, <<"silver", "clean_claims">>},
            <<"silver", "policy_claims">>) }

GoldAssets ==
    { Asset("run_gold_agent_performance",
            {"run_silver_clean_agents", "run_silver_clean_claims"},
            {<<"silver", "clean_agents">>, <<"silver", "clean_policies">>,
             <<"silver", "clean_claims">>},
            <<"gold", "agent_performance">>),
      Asset("run_gold_claims_summary",
            {"run_silver_clean_claims"},
            {<<"silver", "clean_claims">>},
            <<"gold", "claims_summary">>),
      Asset("run_gold_customer_risk",
            {"run_silver_customer_policies", "run_silver_policy_claims"},
            {<<"silver", "customer_policies">>, <<"silver", "policy_claims">>},
            <<"gold", "customer_risk">>),
      Asset("run_gold_premium_revenue",
            {"run_silver_clean_policies", "run_silver_clean_payments"},
            {<<"silver", "clean_policies">>, <<"silver", "clean_payments">>},
            <<"gold", "premium_revenue">>) }

Assets == BronzeAssets \cup SilverAssets \cup GoldAssets

\* a run on the local backend, or on the remote one with its credentials
EnvSpacePipeline ==
    { e \in EnvSpaceConc :
        e.STORAGE_BACKEND = "adls" <=> e.ADLS_ACCOUNT_NAME # "" }

InitPipeline ==
    /\ env \in EnvSpacePipeline
    /\ local = <<>>
    /\ adls = <<>>
    /\ last = [op |-> "none", layer |-> "", name |-> <<>>, df |-> None, exc |-> "",
               cause |-> <<>>, loc |-> NoLocation, ops |-> <<>>]
    /\ hist = NoHist
    /\ nCalls = 0
    /\ nReads = 0
    /\ calls = NoCalls
    /\ stages = NoStages
    /\ cli = NoCli

\* one asset runs to its end: the reads of its stage, then its write; an
\* exception of either fails the asset, and the assets that depend on a
\* failed asset are not started
Materialize ==
    \E a \in Assets :
        LET missing == { r \in a.reads :
                           read_parquet_latest(r[1], Prefix(r[1], r[2]), "none").exc # "" }
            w == write_parquet(FullTable, a.writes[1],
                               FileName(a.writes[1], a.writes[2], 1), NoFault)
        IN  /\ a.name \notin stages.done \cup stages.failed
            /\ a.deps \subseteq stages.done
            /\ IF missing # {}
               THEN /\ stages' = [stages EXCEPT !.failed = @ \cup {a.name}]
                    /\ UNCHANGED <<local, adls>>
               ELSE /\ local' = w.local
                    /\ adls' = w.adls
                    /\ stages' = IF w.exc = ""
                                 THEN [stages EXCEPT !.done = @ \cup {a.name}]
                                 ELSE [stages EXCEPT !.failed = @ \cup {a.name}]
            /\ UNCHANGED <<env, last, hist, nCalls, nReads, calls, cli>>

NextPipeline == Materialize

SpecPipeline == InitPipeline /\ [][NextPipeline]_vars

\* C28: every dataset prefix that a stage reads is written by an asset of
\* its deps, so in any schedule that respects the deps and starts from empty
\* storage every asset that has run found each of its inputs written by a
\* completed asset of its deps, and none failed with not-found.
C28_ReadsDeclaredAsDeps ==
    /\ stages.failed = {}
    /\ \A a \in Assets :
          a.name \in stages.done \cup stages.failed =>
              \A r \in a.reads :
                  \E d \in Assets :
                      d.name \in a.deps /\ d.name \in stages.done /\ d.writes = r

----------------------------------------------------------------------------
(* The run_polster command. cli holds its parsed arguments (ui, materialize,
   asset: the --asset values in order, status), where main is (pc), the
   subprocesses it has started so far in order (started), the status the
   materialization returned (result) and, once pc = "exited", the exit
   status of the command.
   Every subprocess is taken to start and to return a status. *)

\* the --asset values given on the command line (none: the option is absent)
AssetArgs == { <<>>, <<"bronze_agents">>, <<"bronze_agents", "silver_clean_agents">> }

\* the statuses subprocess.call returns for a materialization
Results == {0, 1, 2}

InitCli ==
    /\ env \in EnvSpacePipeline
    /\ local = <<>>
    /\ adls = <<>>
    /\ last = [op |-> "none", layer |-> "", name |-> <<>>, df |-> None, exc |-> "",
               cause |-> <<>>, loc |-> NoLocation, ops |-> <<>>]
    /\ hist = NoHist
    /\ nCalls = 0
    /\ nReads = 0
    /\ calls = NoCalls
    /\ stages = NoStages
    /\ cli = NoCli

\* after an operation: the UI if asked for, else the end of main
ThenUi(c) ==
    IF c.ui THEN [c EXCEPT !.pc = "launch_ui"]
    ELSE [c EXCEPT !.pc = "exited", !.exit = 0]

\* mutant: a failed materialization ends the command even with --ui
ExitOnFailure_IgnoresUi(success, ui) == ~success

\* lines 183-184 and 192-193: if not success and not args.ui: sys.exit(1)
ExitOnFailure(success, ui) == ~success /\ ~ui

\* subprocess.call(cmd) of a materialization returning result
Materialized(c, select, result) ==
    LET d == [c EXCEPT !.started = Append(@, [cmd |-> "materialize", select |-> select]),
                       !.result = result]
    IN  IF ExitOnFailure(result = 0, c.ui)
        THEN [d EXCEPT !.pc = "exited", !.exit = 1]
        ELSE ThenUi(d)

\* lines 162-175 and the branch of lines 177-197: the arguments are parsed
\* and validated; parser.error
\* prints the message and exits with status 2
main ==
    /\ cli.pc = "none"
    /\ \E ui \in BOOLEAN, materialize \in BOOLEAN, status \in BOOLEAN,
          asset \in AssetArgs :
          LET args == [cli EXCEPT !.ui = ui, !.materialize = materialize,
                                  !.status = status, !.asset = asset]
          IN  cli' =
                IF \/ asset # <<>> /\ materialize
                   \/ status /\ materialize
                   \/ asset # <<>> /\ status
                THEN [args EXCEPT !.pc = "exited", !.exit = 2]
                ELSE IF status THEN [args EXCEPT !.pc = "show_pipeline_status"]
                ELSE IF asset # <<>>
                THEN [args EXCEPT !.pc = "materialize_specific_assets"]
                ELSE IF materialize \/ ~ui
                THEN [args EXCEPT !.pc = "materialize_assets"]
                ELSE ThenUi(args)
    /\ UNCHANGED <<env, local, adls, last, hist, nCalls, nReads, calls, stages>>

\* lines 109-126 and 177-180: the status query, whose outcome is only printed
show_pipeline_status ==
    /\ cli.pc = "show_pipeline_status"
    /\ cli' = ThenUi([cli EXCEPT !.started =
                         Append(@, [cmd |-> "job list", select |-> <<>>])])
    /\ UNCHANGED <<env, local, adls, last, hist, nCalls, nReads, calls, stages>>

\* lines 83-106 and 181-186
materialize_specific_assets ==
    /\ cli.pc = "materialize_specific_assets"
    /\ \E result \in Results :
          cli' = Materialized(cli,
                              [i \in 1..Len(cli.asset) |-> "run_" \o cli.asset[i]],
                              result)
    /\ UNCHANGED <<env, local, adls, last, hist, nCalls, nReads, calls, stages>>

\* lines 51-69 and 189-193
materialize_assets ==
    /\ cli.pc = "materialize_assets"
    /\ \E result \in Results : cli' = Materialized(cli, <<"*">>, result)
    /\ UNCHANGED <<env, local, adls, last, hist, nCalls, nReads, calls, stages>>

\* lines 72-80: the UI runs until it is stopped, then main ends
launch_ui ==
    /\ cli.pc = "launch_ui"
    /\ cli' = [cli EXCEPT !.started = Append(@, [cmd |-> "dev", select |-> <<>>]),
                          !.pc = "exited", !.exit = 0]
    /\ UNCHANGED <<env, local, adls, last, hist, nCalls, nReads, calls, stages>>

NextCli ==
    \/ main
    \/ show_pipeline_status
    \/ materialize_specific_assets
    \/ materialize_assets
    \/ launch_ui

SpecCli == InitCli /\ [][NextCli]_vars

\* the subprocesses of one kind that the command has started
Started(cmd) == { i \in 1..Len(cli.started) : cli.started[i].cmd = cmd }

====
